---------------------------- MODULE Spec2Model ----------------------------
(***************************************************************************)
(* Capability registry and value-conversion layer                          *)
(* (src/src/types/capability-registry.ts, enums of                         *)
(* src/src/types/unified-device.ts).                                       *)
(*                                                                         *)
(* Two process-wide registries held in static, insertion-ordered JS Maps:  *)
(*   CapabilityRegistry.mappings         "platform:name" -> mapping record *)
(*   CapabilityRegistry.reverseMappings  "platform:cap"  -> platform name  *)
(*   ValueConversionRegistry.conversions "platform:cap:attr" -> converters *)
(* The module's load runs initializeCapabilityMappings() and then          *)
(* initializeValueConversions(); after that any caller may invoke the      *)
(* static API.                                                             *)
(*                                                                         *)
(* Modelling conventions                                                   *)
(*   - a JS Map is a sequence of [key, value] entries in insertion order;  *)
(*   - `T | null` / `T | undefined` is a sequence of length 0 or 1;        *)
(*   - keys are the very strings the code builds (template literals);      *)
(*   - a JS number is an IEEE-754 binary64 value; at the API boundary it   *)
(*     is written as the decimal literal that denotes it (see Dec);        *)
(*   - the history variables `registered` and `convRegistered` record the  *)
(*     register calls made since the last clear() of the owning registry.  *)
(***************************************************************************)
EXTENDS Integers, Sequences, FiniteSets, TLC

VARIABLES
    pc,               \* position of the module's load: "load0", "load1", "ready"
    mappings,         \* CapabilityRegistry.mappings
    reverseMappings,  \* CapabilityRegistry.reverseMappings
    conversions,      \* ValueConversionRegistry.conversions
    warnings,         \* lines written by console.warn
    registered,       \* history: CapabilityRegistry.register calls since clear()
    convRegistered,   \* history: ValueConversionRegistry.register calls since clear()
    calls,            \* number of API calls made after the load
    call              \* the last API call: operation, arguments, result

vars == <<pc, mappings, reverseMappings, conversions, warnings,
          registered, convRegistered, calls, call>>

capVars == <<mappings, reverseMappings, warnings, registered>>

---------------------------------------------------------------------------
(* Bounds of the model                                                     *)

\* API calls explored after the load
MaxCalls == 2

---------------------------------------------------------------------------
(* Enumerations (unified-device.ts)                                        *)

Platform == {"smartthings", "tuya", "lutron"}

ControlCapabilities ==
    {"switch", "dimmer", "color", "colorTemperature", "thermostat", "lock",
     "shade", "fan", "valve", "alarm", "doorControl"}

SensorCapabilities ==
    {"temperatureSensor", "humiditySensor", "motionSensor", "contactSensor",
     "occupancySensor", "illuminanceSensor", "battery", "airQualitySensor",
     "waterLeakSensor", "smokeDetector", "button", "pressureSensor",
     "coDetector", "soundSensor"}

CompositeCapabilities ==
    {"energyMeter", "speaker", "mediaPlayer", "camera", "robotVacuum",
     "irBlaster"}

DeviceCapability ==
    ControlCapabilities \cup SensorCapabilities \cup CompositeCapabilities

---------------------------------------------------------------------------
(* JS values shared by both registries                                     *)

Null == <<>>
Undefined == <<>>
Some(x) == <<x>>

\* JS Map: get / has / set / size on an insertion-ordered entry sequence.
\* index of the entry holding `key` (keys are unique in a Map), 0 when absent
MapIndex(m, key) ==
    IF \E i \in 1..Len(m) : m[i].key = key
    THEN CHOOSE i \in 1..Len(m) : m[i].key = key
    ELSE 0

MapHas(m, key) == MapIndex(m, key) # 0

MapGet(m, key) ==
    LET i == MapIndex(m, key)
    IN  IF i = 0 THEN Undefined ELSE Some(m[i].value)

\* a mutant of MapSet: always appends, never replaces the existing entry
MapSetAppendOnly(m, key, value) ==
    Append(m, [key |-> key, value |-> value])

\* Map.prototype.set: replaces the value in place when the key exists,
\* appends a new entry otherwise.
MapSet(m, key, value) ==
    LET i == MapIndex(m, key)
    IN  IF i = 0
        THEN Append(m, [key |-> key, value |-> value])
        ELSE [m EXCEPT ![i] = [key |-> key, value |-> value]]

MapSize(m) == Len(m)

\* String.prototype.startsWith
startsWith(s, prefix) ==
    /\ Len(s) >= Len(prefix)
    /\ SubSeq(s, 1, Len(prefix)) = prefix

---------------------------------------------------------------------------
(* CapabilityRegistry                                                      *)

\* PlatformCapabilityMapping; the optional fields are absent (<<>>) or <<v>>.
Mapping(p, name, cap, conv, notes, dep, msg) ==
    [platform |-> p, platformCapability |-> name, unifiedCapability |-> cap,
     conversionRequired |-> conv, notes |-> notes, deprecated |-> dep,
     deprecationMessage |-> msg]

\* a mutant of makeKey: the platform is left out of the key
CapabilityRegistry_makeKeyNameOnly(platform, capability) == ":" \o capability

\* CapabilityRegistry.makeKey: `${platform}:${capability}`
CapabilityRegistry_makeKey(platform, capability) == platform \o ":" \o capability

\* truthiness of an optional boolean / optional string
TruthyBool(opt) == opt # <<>> /\ opt[1]
TruthyString(opt) == opt # <<>> /\ opt[1] # ""

\* The state CapabilityRegistry.register works on, as one record.
CapState ==
    [mappings |-> mappings, reverseMappings |-> reverseMappings,
     warnings |-> warnings, registered |-> registered]

DeprecationWarning(key, mapping) ==
    "[CapabilityRegistry] Deprecated capability registered: " \o key
        \o " - " \o mapping.deprecationMessage[1]

\* a mutant of register: the reverse map keeps the first name of a capability
CapabilityRegistry_registerFirstAlias(st, mapping) ==
    LET key == CapabilityRegistry_makeKey(mapping.platform, mapping.platformCapability)
        reverseKey == CapabilityRegistry_makeKey(mapping.platform, mapping.unifiedCapability)
    IN  [mappings |-> MapSet(st.mappings, key, mapping),
         reverseMappings |->
             IF MapHas(st.reverseMappings, reverseKey) THEN st.reverseMappings
             ELSE MapSet(st.reverseMappings, reverseKey, mapping.platformCapability),
         warnings |->
             IF TruthyBool(mapping.deprecated)
                    /\ TruthyString(mapping.deprecationMessage)
             THEN Append(st.warnings, DeprecationWarning(key, mapping))
             ELSE st.warnings,
         registered |-> Append(st.registered, mapping)]

\* a mutant of register: a mapping marked deprecated is not entered
CapabilityRegistry_registerSkipDeprecated(st, mapping) ==
    LET key == CapabilityRegistry_makeKey(mapping.platform, mapping.platformCapability)
        reverseKey == CapabilityRegistry_makeKey(mapping.platform, mapping.unifiedCapability)
    IN  IF TruthyBool(mapping.deprecated)
        THEN [st EXCEPT !.registered = Append(st.registered, mapping)]
        ELSE [mappings |-> MapSet(st.mappings, key, mapping),
              reverseMappings |->
                  MapSet(st.reverseMappings, reverseKey, mapping.platformCapability),
              warnings |-> st.warnings,
              registered |-> Append(st.registered, mapping)]

\* a mutant of register: a name that moves to another capability takes the
\* reverse entry of its former capability with it
CapabilityRegistry_registerMovingName(st, mapping) ==
    LET key == CapabilityRegistry_makeKey(mapping.platform, mapping.platformCapability)
        reverseKey == CapabilityRegistry_makeKey(mapping.platform, mapping.unifiedCapability)
        former == MapGet(st.mappings, key)
        formerKey == CapabilityRegistry_makeKey(mapping.platform,
                         former[1].unifiedCapability)
        kept == IF former = Undefined THEN st.reverseMappings
                ELSE SelectSeq(st.reverseMappings, LAMBDA e : e.key # formerKey)
    IN  [mappings |-> MapSet(st.mappings, key, mapping),
         reverseMappings |-> MapSet(kept, reverseKey, mapping.platformCapability),
         warnings |->
             IF TruthyBool(mapping.deprecated)
                    /\ TruthyString(mapping.deprecationMessage)
             THEN Append(st.warnings, DeprecationWarning(key, mapping))
             ELSE st.warnings,
         registered |-> Append(st.registered, mapping)]

\* CapabilityRegistry.register
CapabilityRegistry_register(st, mapping) ==
    LET key == CapabilityRegistry_makeKey(mapping.platform, mapping.platformCapability)
        reverseKey == CapabilityRegistry_makeKey(mapping.platform, mapping.unifiedCapability)
    IN  [mappings |-> MapSet(st.mappings, key, mapping),
         reverseMappings |->
             MapSet(st.reverseMappings, reverseKey, mapping.platformCapability),
         warnings |->
             IF TruthyBool(mapping.deprecated)
                    /\ TruthyString(mapping.deprecationMessage)
             THEN Append(st.warnings, DeprecationWarning(key, mapping))
             ELSE st.warnings,
         registered |-> Append(st.registered, mapping)]

\* CapabilityRegistry.getUnifiedCapability: mapping?.unifiedCapability ?? null
getUnifiedCapability(platform, platformCapability) ==
    LET key == CapabilityRegistry_makeKey(platform, platformCapability)
        mapping == MapGet(mappings, key)
    IN  IF mapping = Undefined THEN Null ELSE Some(mapping[1].unifiedCapability)

\* a mutant of getPlatformCapability: `||` in place of `??`
getPlatformCapabilityOr(platform, unifiedCapability) ==
    LET reverseKey == CapabilityRegistry_makeKey(platform, unifiedCapability)
        found == MapGet(reverseMappings, reverseKey)
    IN  IF found = Undefined \/ found[1] = "" THEN Null ELSE found

\* CapabilityRegistry.getPlatformCapability: reverseMappings.get(key) ?? null
getPlatformCapability(platform, unifiedCapability) ==
    LET reverseKey == CapabilityRegistry_makeKey(platform, unifiedCapability)
        found == MapGet(reverseMappings, reverseKey)
    IN  IF found = Undefined THEN Null ELSE found

\* CapabilityRegistry.isPlatformSupported
isPlatformSupported(platform, capability) ==
    LET reverseKey == CapabilityRegistry_makeKey(platform, capability)
    IN  MapHas(reverseMappings, reverseKey)

\* the values of the entries whose key starts with `${platform}:`, in order
\* (the selection is evaluated once, before the array is built from it)
PlatformEntries(m, platform) ==
    CHOOSE r \in {[i \in 1..Len(es) |-> es[i].value] :
                     es \in {SelectSeq(m, LAMBDA e :
                                 startsWith(e.key, platform \o ":"))}} : TRUE

\* CapabilityRegistry.getSupportedCapabilities: one array element per entry
getSupportedCapabilities(platform) ==
    CHOOSE r \in {[i \in 1..Len(es) |-> es[i].unifiedCapability] :
                     es \in {PlatformEntries(mappings, platform)}} : TRUE

\* CapabilityRegistry.getPlatformCapabilities
getPlatformCapabilities(platform) ==
    CHOOSE r \in {[i \in 1..Len(es) |-> es[i].platformCapability] :
                     es \in {PlatformEntries(mappings, platform)}} : TRUE

\* CapabilityRegistry.getMapping: mappings.get(key) ?? null
getMapping(platform, platformCapability) ==
    LET key == CapabilityRegistry_makeKey(platform, platformCapability)
        found == MapGet(mappings, key)
    IN  IF found = Undefined THEN Null ELSE found

\* CapabilityRegistry.getMappingCount
getMappingCount == MapSize(mappings)

\* a mutant of clear: the reverse map is left as it is
CapabilityRegistry_clearForwardOnly(st) ==
    [mappings |-> <<>>, reverseMappings |-> st.reverseMappings,
     warnings |-> st.warnings, registered |-> <<>>]

\* CapabilityRegistry.clear (the history restarts with the maps)
CapabilityRegistry_clear(st) ==
    [mappings |-> <<>>, reverseMappings |-> <<>>,
     warnings |-> st.warnings, registered |-> <<>>]

---------------------------------------------------------------------------
(* initializeCapabilityMappings: its register calls, in source order       *)

StandardMappings ==
  <<
    (* line 473 *) Mapping("smartthings", "switch", "switch", FALSE,
        <<>>, <<>>, <<>>),
    (* line 480 *) Mapping("smartthings", "switchLevel", "dimmer", FALSE,
        <<>>, <<>>, <<>>),
    (* line 487 *) Mapping("smartthings", "colorControl", "color", TRUE,
        <<"Hue: 0-100 (%) → 0-360 (degrees)">>, <<>>, <<>>),
    (* line 495 *) Mapping("smartthings", "colorTemperature", "colorTemperature", FALSE,
        <<>>, <<>>, <<>>),
    (* line 502 *) Mapping("smartthings", "thermostat", "thermostat", FALSE,
        <<"Composite of 8 SmartThings capabilities">>, <<>>, <<>>),
    (* line 510 *) Mapping("smartthings", "lock", "lock", FALSE,
        <<>>, <<>>, <<>>),
    (* line 517 *) Mapping("smartthings", "windowShade", "shade", FALSE,
        <<>>, <<>>, <<>>),
    (* line 524 *) Mapping("smartthings", "fanSpeed", "fan", FALSE,
        <<>>, <<>>, <<>>),
    (* line 531 *) Mapping("smartthings", "valve", "valve", FALSE,
        <<>>, <<>>, <<>>),
    (* line 538 *) Mapping("smartthings", "alarm", "alarm", FALSE,
        <<>>, <<>>, <<>>),
    (* line 545 *) Mapping("smartthings", "doorControl", "doorControl", FALSE,
        <<>>, <<>>, <<>>),
    (* line 552 *) Mapping("smartthings", "garageDoorControl", "doorControl", FALSE,
        <<"Alias for doorControl">>, <<>>, <<>>),
    (* line 561 *) Mapping("smartthings", "temperatureMeasurement", "temperatureSensor", FALSE,
        <<>>, <<>>, <<>>),
    (* line 568 *) Mapping("smartthings", "relativeHumidityMeasurement", "humiditySensor", FALSE,
        <<>>, <<>>, <<>>),
    (* line 575 *) Mapping("smartthings", "motionSensor", "motionSensor", FALSE,
        <<>>, <<>>, <<>>),
    (* line 582 *) Mapping("smartthings", "contactSensor", "contactSensor", FALSE,
        <<>>, <<>>, <<>>),
    (* line 589 *) Mapping("smartthings", "illuminanceMeasurement", "illuminanceSensor", FALSE,
        <<>>, <<>>, <<>>),
    (* line 596 *) Mapping("smartthings", "battery", "battery", FALSE,
        <<>>, <<>>, <<>>),
    (* line 603 *) Mapping("smartthings", "airQualitySensor", "airQualitySensor", FALSE,
        <<>>, <<>>, <<>>),
    (* line 610 *) Mapping("smartthings", "waterSensor", "waterLeakSensor", FALSE,
        <<>>, <<>>, <<>>),
    (* line 617 *) Mapping("smartthings", "smokeDetector", "smokeDetector", FALSE,
        <<>>, <<>>, <<>>),
    (* line 624 *) Mapping("smartthings", "button", "button", FALSE,
        <<>>, <<>>, <<>>),
    (* line 631 *) Mapping("smartthings", "pressureMeasurement", "pressureSensor", FALSE,
        <<>>, <<>>, <<>>),
    (* line 638 *) Mapping("smartthings", "carbonMonoxideDetector", "coDetector", FALSE,
        <<>>, <<>>, <<>>),
    (* line 645 *) Mapping("smartthings", "soundPressureLevel", "soundSensor", FALSE,
        <<>>, <<>>, <<>>),
    (* line 653 *) Mapping("smartthings", "powerMeter", "energyMeter", FALSE,
        <<"Composite with energyMeter">>, <<>>, <<>>),
    (* line 661 *) Mapping("smartthings", "audioVolume", "speaker", FALSE,
        <<>>, <<>>, <<>>),
    (* line 668 *) Mapping("smartthings", "mediaPlayback", "mediaPlayer", FALSE,
        <<>>, <<>>, <<>>),
    (* line 675 *) Mapping("smartthings", "videoStream", "camera", FALSE,
        <<>>, <<>>, <<>>),
    (* line 682 *) Mapping("smartthings", "robotCleanerMovement", "robotVacuum", FALSE,
        <<>>, <<>>, <<>>),
    (* line 689 *) Mapping("smartthings", "infraredLevel", "irBlaster", FALSE,
        <<>>, <<>>, <<>>),
    (* line 697 *) Mapping("smartthings", "momentary", "button", FALSE,
        <<>>, <<TRUE>>, <<"Use \"button\" capability instead">>),
    (* line 711 *) Mapping("tuya", "switch_led", "switch", FALSE,
        <<>>, <<>>, <<>>),
    (* line 718 *) Mapping("tuya", "bright_value", "dimmer", TRUE,
        <<"0-1000 → 0-100">>, <<>>, <<>>),
    (* line 726 *) Mapping("tuya", "colour_data", "color", TRUE,
        <<"HSV JSON string → HSV object">>, <<>>, <<>>),
    (* line 734 *) Mapping("tuya", "temp_value", "colorTemperature", TRUE,
        <<"Device-specific range → Kelvin">>, <<>>, <<>>),
    (* line 742 *) Mapping("tuya", "temp_set", "thermostat", FALSE,
        <<>>, <<>>, <<>>),
    (* line 749 *) Mapping("tuya", "lock_motor_state", "lock", TRUE,
        <<"Map Tuya lock states">>, <<>>, <<>>),
    (* line 757 *) Mapping("tuya", "position", "shade", FALSE,
        <<>>, <<>>, <<>>),
    (* line 764 *) Mapping("tuya", "fan_speed", "fan", FALSE,
        <<>>, <<>>, <<>>),
    (* line 771 *) Mapping("tuya", "switch_1", "valve", FALSE,
        <<>>, <<>>, <<>>),
    (* line 778 *) Mapping("tuya", "alarm_switch", "alarm", FALSE,
        <<>>, <<>>, <<>>),
    (* line 786 *) Mapping("tuya", "temp_current", "temperatureSensor", TRUE,
        <<"C/F conversion may be needed">>, <<>>, <<>>),
    (* line 794 *) Mapping("tuya", "humidity_value", "humiditySensor", FALSE,
        <<>>, <<>>, <<>>),
    (* line 801 *) Mapping("tuya", "pir", "motionSensor", TRUE,
        <<"Map pir/none to active/inactive">>, <<>>, <<>>),
    (* line 809 *) Mapping("tuya", "doorcontact_state", "contactSensor", TRUE,
        <<"Map boolean to open/closed">>, <<>>, <<>>),
    (* line 817 *) Mapping("tuya", "battery_percentage", "battery", FALSE,
        <<>>, <<>>, <<>>),
    (* line 824 *) Mapping("tuya", "pm25_value", "airQualitySensor", FALSE,
        <<>>, <<>>, <<>>),
    (* line 831 *) Mapping("tuya", "watersensor_state", "waterLeakSensor", TRUE,
        <<"Map Tuya states to dry/wet">>, <<>>, <<>>),
    (* line 839 *) Mapping("tuya", "smoke_sensor_status", "smokeDetector", TRUE,
        <<"Map Tuya states">>, <<>>, <<>>),
    (* line 848 *) Mapping("tuya", "cur_power", "energyMeter", FALSE,
        <<>>, <<>>, <<>>),
    (* line 855 *) Mapping("tuya", "volume", "speaker", FALSE,
        <<>>, <<>>, <<>>),
    (* line 862 *) Mapping("tuya", "work_state", "mediaPlayer", TRUE,
        <<"Map work_state enum">>, <<>>, <<>>),
    (* line 870 *) Mapping("tuya", "basic_device_status", "camera", TRUE,
        <<"Complex mapping">>, <<>>, <<>>),
    (* line 882 *) Mapping("lutron", "OUTPUT", "switch", TRUE,
        <<"Binary 0% or 100% only">>, <<>>, <<>>),
    (* line 890 *) Mapping("lutron", "OUTPUT", "dimmer", TRUE,
        <<"Round 0.00-100.00 to 0-100">>, <<>>, <<>>),
    (* line 898 *) Mapping("lutron", "POSITION", "shade", FALSE,
        <<>>, <<>>, <<>>),
    (* line 905 *) Mapping("lutron", "TILT", "shade", FALSE,
        <<"Shade tilt control">>, <<>>, <<>>),
    (* line 913 *) Mapping("lutron", "OCCUPANCY", "occupancySensor", TRUE,
        <<"Map occupied/unoccupied">>, <<>>, <<>>),
    (* line 921 *) Mapping("lutron", "FAN_SPEED", "fan", FALSE,
        <<"RadioRA3 only">>, <<>>, <<>>)
  >>

\* the register calls ms[lo], ..., ms[hi] made in order on st (the first half
\* is evaluated to a value before the second half starts from it)
RECURSIVE registerAll(_, _, _, _)
registerAll(st, ms, lo, hi) ==
    IF lo > hi THEN st
    ELSE IF lo = hi THEN CapabilityRegistry_register(st, ms[lo])
    ELSE LET mid == (lo + hi) \div 2
         IN  CHOOSE r \in {registerAll(left, ms, mid + 1, hi) :
                              left \in {registerAll(st, ms, lo, mid)}} : TRUE

\* initializeCapabilityMappings
initializeCapabilityMappings(st) == registerAll(st, StandardMappings, 1, Len(StandardMappings))

---------------------------------------------------------------------------
(* IEEE-754 binary64 arithmetic (the JS number type), exact.               *)
(* A natural number of any size is a little-endian sequence of limbs in    *)
(* base 2^15 without high zero limbs; a finite non-negative double is      *)
(* [m, e] standing for m * 2^e with m < 2^53 (53 mantissa bits).           *)

Base == 2 ^ 15

RECURSIVE BigNorm(_)
BigNorm(a) ==
    IF a # <<>> /\ a[Len(a)] = 0 THEN BigNorm(SubSeq(a, 1, Len(a) - 1)) ELSE a

RECURSIVE BigFromNat(_)
BigFromNat(n) ==
    IF n = 0 THEN <<>> ELSE <<n % Base>> \o BigFromNat(n \div Base)

RECURSIVE BigToNat(_)
BigToNat(a) ==
    IF a = <<>> THEN 0 ELSE a[1] + Base * BigToNat(Tail(a))

Limb(a, i) == IF i <= Len(a) THEN a[i] ELSE 0

RECURSIVE BigCmpFrom(_, _, _)
BigCmpFrom(a, b, i) ==
    IF i = 0 THEN 0
    ELSE IF a[i] > b[i] THEN 1
    ELSE IF a[i] < b[i] THEN -1
    ELSE BigCmpFrom(a, b, i - 1)

\* -1, 0, 1 as a < b, a = b, a > b
BigCmp(a, b) ==
    IF Len(a) > Len(b) THEN 1
    ELSE IF Len(a) < Len(b) THEN -1
    ELSE BigCmpFrom(a, b, Len(a))

RECURSIVE BigAddFrom(_, _, _, _)
BigAddFrom(a, b, i, carry) ==
    IF i > Len(a) /\ i > Len(b)
    THEN IF carry = 0 THEN <<>> ELSE <<carry>>
    ELSE LET s == Limb(a, i) + Limb(b, i) + carry
         IN  <<s % Base>> \o BigAddFrom(a, b, i + 1, s \div Base)

BigAdd(a, b) == BigAddFrom(a, b, 1, 0)

RECURSIVE BigSubFrom(_, _, _, _)
BigSubFrom(a, b, i, borrow) ==
    IF i > Len(a) THEN <<>>
    ELSE LET d == a[i] - Limb(b, i) - borrow
         IN  IF d < 0
             THEN <<d + Base>> \o BigSubFrom(a, b, i + 1, 1)
             ELSE <<d>> \o BigSubFrom(a, b, i + 1, 0)

\* a - b for a >= b
BigSub(a, b) == BigNorm(BigSubFrom(a, b, 1, 0))

RECURSIVE BigMulSmallFrom(_, _, _, _)
BigMulSmallFrom(a, k, i, carry) ==
    IF i > Len(a)
    THEN IF carry = 0 THEN <<>> ELSE <<carry>>
    ELSE LET p == a[i] * k + carry
         IN  <<p % Base>> \o BigMulSmallFrom(a, k, i + 1, p \div Base)

\* a * k for 0 <= k < Base
BigMulSmall(a, k) == IF k = 0 THEN <<>> ELSE BigMulSmallFrom(a, k, 1, 0)

ShiftLimbs(a, n) == IF a = <<>> THEN <<>> ELSE [i \in 1..n |-> 0] \o a

RECURSIVE BigMulFrom(_, _, _)
BigMulFrom(a, b, i) ==
    IF i > Len(b) THEN <<>>
    ELSE BigAdd(ShiftLimbs(BigMulSmall(a, b[i]), i - 1), BigMulFrom(a, b, i + 1))

BigMul(a, b) == BigMulFrom(a, b, 1)

RECURSIVE BitLenNat(_)
BitLenNat(n) == IF n = 0 THEN 0 ELSE 1 + BitLenNat(n \div 2)

BigBitLen(a) ==
    IF a = <<>> THEN 0 ELSE 15 * (Len(a) - 1) + BitLenNat(a[Len(a)])

\* a * 2^n
BigShl(a, n) == ShiftLimbs(BigMulSmall(a, 2 ^ (n % 15)), n \div 15)

\* floor(a / 2^n)
BigShr(a, n) ==
    LET q == n \div 15
        r == n % 15
        d == IF q >= Len(a) THEN <<>> ELSE SubSeq(a, q + 1, Len(a))
    IN  BigNorm([i \in 1..Len(d) |->
                    (d[i] \div (2 ^ r))
                        + (Limb(d, i + 1) % (2 ^ r)) * (2 ^ (15 - r))])

\* a mod 2^n
BigLow(a, n) == BigSub(a, BigShl(BigShr(a, n), n))

BigOdd(a) == a # <<>> /\ a[1] % 2 = 1

Double(m, e) == [m |-> m, e |-> e]

\* the double nearest to n * 2^e (plus a positive amount below one unit of n
\* when `sticky`), ties to the even mantissa
RoundNearestEven(n, e, sticky) ==
    LET len == BigBitLen(n)
    IN  IF len <= 53 THEN Double(n, e)
        ELSE LET d == len - 53
                 q == BigShr(n, d)
                 c == BigCmp(BigLow(n, d), BigShl(<<1>>, d - 1))
                 up == c > 0 \/ (c = 0 /\ (sticky \/ BigOdd(q)))
             IN  Double(IF up THEN BigAdd(q, <<1>>) ELSE q, e + d)

FromInt(n) == Double(BigFromNat(n), 0)

\* x * y, correctly rounded
FlMul(x, y) == RoundNearestEven(BigMul(x.m, y.m), x.e + y.e, FALSE)

\* Division works on numbers below 2^58 held as <<low, high>> in base 2^26.
Word == 2 ^ 26

PairFromBig(a) == <<BigToNat(BigLow(a, 26)), BigToNat(BigShr(a, 26))>>
BigFromPair(lo, hi) == BigAdd(BigFromNat(lo), BigShl(BigFromNat(hi), 26))

\* one step of restoring binary division by b = <<low, high>> on
\* <<quotient low, quotient high, remainder low, remainder high>>
DivStep(qr, b) ==
    LET ql == (2 * qr[1]) % Word
        qh == 2 * qr[2] + (2 * qr[1]) \div Word
        rl == (2 * qr[3]) % Word
        rh == 2 * qr[4] + (2 * qr[3]) \div Word
    IN  IF rh > b[2] \/ (rh = b[2] /\ rl >= b[1])
        THEN <<ql + 1, qh, (rl - b[1]) % Word,
               rh - b[2] - (IF rl < b[1] THEN 1 ELSE 0)>>
        ELSE <<ql, qh, rl, rh>>

\* n >= 1 steps; afterwards quotient = floor(r * 2^n / b) for the initial
\* quotient 0 and remainder r < b
RECURSIVE DivSteps(_, _, _)
DivSteps(qr, b, n) ==
    IF n = 1 THEN DivStep(qr, b)
    ELSE CHOOSE r \in {DivSteps(half, b, n - n \div 2) :
                          half \in {DivSteps(qr, b, n \div 2)}} : TRUE

\* x / y for y > 0, correctly rounded
FlDiv(x, y) ==
    IF x.m = <<>> THEN x
    ELSE LET la == BigBitLen(x.m)
             lb == BigBitLen(y.m)
             j == IF la - lb + 1 > 0 THEN la - lb + 1 ELSE 0
             b == PairFromBig(BigShl(y.m, j))
             r == PairFromBig(x.m)
             n == 53 + 3 + (lb + j) - (la + 1)
             qr == DivSteps(<<0, 0, r[1], r[2]>>, b, n)
         IN  RoundNearestEven(BigFromPair(qr[1], qr[2]), x.e - y.e + j - n,
                              qr[3] # 0 \/ qr[4] # 0)

\* floor(m * 2^e + 1/2) as an integer
RoundHalfUp(m, e) ==
    IF e >= 0 THEN BigToNat(BigShl(m, e))
    ELSE LET ip == BigShr(m, -e)
             up == BigCmp(BigLow(m, -e), BigShl(<<1>>, -e - 1)) >= 0
         IN  BigToNat(ip) + (IF up THEN 1 ELSE 0)

\* Math.floor on a non-negative double
MathFloor(x) == IF x.e >= 0 THEN BigToNat(BigShl(x.m, x.e)) ELSE BigToNat(BigShr(x.m, -x.e))

\* Math.round on a non-negative double: the nearest integer, ties upward
MathRound(x) == RoundHalfUp(x.m, x.e)

\* The double a decimal literal n / 10^k denotes (numeric literal parsing and
\* Number(string) are correctly rounded, as is the division of two exact
\* doubles).
Dec(n, k) == IF k = 0 THEN FromInt(n) ELSE FlDiv(FromInt(n), FromInt(10 ^ k))

\* Number.prototype.toFixed(2): the integer n with n / 100 closest to x, the
\* larger on a tie; the result is the string of n / 100 with two decimals.
toFixed2(x) == RoundHalfUp(BigMulSmall(x.m, 100), x.e)


\* the literals 3.6 and 2.55
ThreePointSix == Dec(36, 1)
TwoPointFiveFive == Dec(255, 2)
---------------------------------------------------------------------------
(* Values crossing the conversion API                                      *)

\* the shortest decimal literal equal to n / 10^k
RECURSIVE NormDec(_, _)
NormDec(n, k) ==
    IF k > 0 /\ n % 10 = 0 THEN NormDec(n \div 10, k - 1) ELSE [n |-> n, k |-> k]

\* the JS number written n / 10^k in decimal
Number(n, k) == [t |-> "number", n |-> NormDec(n, k).n, k |-> NormDec(n, k).k]
String(s) == [t |-> "string", s |-> s]
\* a { h, s, v } object of numbers
Hsv(h, s, v) == [t |-> "object", h |-> h, s |-> s, v |-> v]

ToDouble(value) == Dec(value.n, value.k)

Returned(value) == [threw |-> FALSE, value |-> value]
Thrown(error) == [threw |-> TRUE, error |-> error]

---------------------------------------------------------------------------
(* JSON text of an { h, s, v } object with integer members                 *)

\* JSON.stringify({ h, s, v }) for integers h, s, v
JSON_stringify(h, s, v) ==
    "{\"h\":" \o ToString(h) \o ",\"s\":" \o ToString(s)
        \o ",\"v\":" \o ToString(v) \o "}"

Digits == <<"0", "1", "2", "3", "4", "5", "6", "7", "8", "9">>
IsDigit(c) == \E d \in 1..10 : Digits[d] = c
DigitValue(c) == (CHOOSE d \in 1..10 : Digits[d] = c) - 1
CharAt(s, i) == IF i >= 1 /\ i <= Len(s) THEN SubSeq(s, i, i) ELSE ""

\* the digits of s from position i on: <<value, position after them>>
RECURSIVE ReadDigits(_, _, _)
ReadDigits(s, i, acc) ==
    IF IsDigit(CharAt(s, i))
    THEN ReadDigits(s, i + 1, 10 * acc + DigitValue(CharAt(s, i)))
    ELSE <<acc, i>>

\* a JSON integer at position i (no sign, no leading zero): <<ok, value, next>>
ReadInt(s, i) ==
    IF ~IsDigit(CharAt(s, i)) THEN <<FALSE, 0, i>>
    ELSE IF CharAt(s, i) = "0" /\ IsDigit(CharAt(s, i + 1)) THEN <<FALSE, 0, i>>
    ELSE <<TRUE, ReadDigits(s, i, 0)[1], ReadDigits(s, i, 0)[2]>>

\* the literal `lit` at position i: the position after it, or 0
ReadLit(s, i, lit) ==
    IF i > 0 /\ i + Len(lit) - 1 <= Len(s) /\ SubSeq(s, i, i + Len(lit) - 1) = lit
    THEN i + Len(lit)
    ELSE 0

\* JSON.parse on the text of an object {"h":<int>,"s":<int>,"v":<int>}:
\* the parsed members, or ok = FALSE where JSON.parse throws SyntaxError.
\* (Texts in other JSON layouts are outside the inputs explored.)
JSON_parse(s) ==
    LET h == ReadInt(s, ReadLit(s, 1, "{\"h\":"))
        ss == ReadInt(s, ReadLit(s, IF h[1] THEN h[3] ELSE 0, ",\"s\":"))
        v == ReadInt(s, ReadLit(s, IF ss[1] THEN ss[3] ELSE 0, ",\"v\":"))
        end == ReadLit(s, IF v[1] THEN v[3] ELSE 0, "}")
    IN  IF h[1] /\ ss[1] /\ v[1] /\ end = Len(s) + 1
        THEN [ok |-> TRUE, h |-> h[2], s |-> ss[2], v |-> v[2]]
        ELSE [ok |-> FALSE]

---------------------------------------------------------------------------
(* The converter functions registered by initializeValueConversions and by *)
(* the callers explored; a registered function is held by its name.        *)

\* (value) => Math.round(value * 10)
TuyaBrightness_toPlatform(value) ==
    Returned(Number(MathRound(FlMul(ToDouble(value), FromInt(10))), 0))

\* a mutant of the Tuya fromPlatform: Math.floor in place of Math.round
TuyaBrightness_fromPlatformFloor(value) ==
    Returned(Number(MathFloor(FlDiv(ToDouble(value), FromInt(10))), 0))

\* (value) => Math.round(value / 10)
TuyaBrightness_fromPlatform(value) ==
    Returned(Number(MathRound(FlDiv(ToDouble(value), FromInt(10))), 0))

\* a mutant of the hue toPlatform: Math.floor in place of Math.round
SmartThingsHue_toPlatformFloor(value) ==
    Returned(Number(MathFloor(FlDiv(ToDouble(value), ThreePointSix)), 0))

\* (value) => Math.round(value / 3.6)
SmartThingsHue_toPlatform(value) ==
    Returned(Number(MathRound(FlDiv(ToDouble(value), ThreePointSix)), 0))

\* (value) => Math.round(value * 3.6)
SmartThingsHue_fromPlatform(value) ==
    Returned(Number(MathRound(FlMul(ToDouble(value), ThreePointSix)), 0))

\* a mutant of the colour toPlatform: Math.floor on the scaled v
TuyaColor_toPlatformFloor(value) ==
    Returned(String(JSON_stringify(
        MathRound(ToDouble(value.h)),
        MathRound(ToDouble(value.s)),
        MathFloor(FlMul(ToDouble(value.v), TwoPointFiveFive)))))

\* (value) => JSON.stringify({ h: Math.round(value.h), s: Math.round(value.s),
\*                             v: Math.round(value.v * 2.55) })
TuyaColor_toPlatform(value) ==
    Returned(String(JSON_stringify(
        MathRound(ToDouble(value.h)),
        MathRound(ToDouble(value.s)),
        MathRound(FlMul(ToDouble(value.v), TwoPointFiveFive)))))

\* a mutant of the colour fromPlatform: Math.floor on the scaled v
TuyaColor_fromPlatformFloor(value) ==
    LET parsed == JSON_parse(value.s)
    IN  IF ~parsed.ok THEN Thrown("SyntaxError")
        ELSE Returned(Hsv(Number(parsed.h, 0), Number(parsed.s, 0),
                 Number(MathFloor(FlDiv(FromInt(parsed.v), TwoPointFiveFive)), 0)))

\* a mutant of the colour fromPlatform: a text that does not parse is
\* returned as it is
TuyaColor_fromPlatformLenient(value) ==
    LET parsed == JSON_parse(value.s)
    IN  IF ~parsed.ok THEN Returned(value)
        ELSE Returned(Hsv(Number(parsed.h, 0), Number(parsed.s, 0),
                 Number(MathRound(FlDiv(FromInt(parsed.v), TwoPointFiveFive)), 0)))

\* (value) => { const parsed = JSON.parse(value);
\*              return { h: parsed.h, s: parsed.s, v: Math.round(parsed.v / 2.55) } }
TuyaColor_fromPlatform(value) ==
    LET parsed == JSON_parse(value.s)
    IN  IF ~parsed.ok THEN Thrown("SyntaxError")
        ELSE Returned(Hsv(Number(parsed.h, 0), Number(parsed.s, 0),
                 Number(MathRound(FlDiv(FromInt(parsed.v), TwoPointFiveFive)), 0)))

\* (value) => Number(value.toFixed(2))
LutronLevel_toPlatform(value) == Returned(Number(toFixed2(ToDouble(value)), 2))

\* a mutant of the Lutron fromPlatform: Math.floor in place of Math.round
LutronLevel_fromPlatformFloor(value) ==
    Returned(Number(MathFloor(ToDouble(value)), 0))

\* (value) => Math.round(value)
LutronLevel_fromPlatform(value) == Returned(Number(MathRound(ToDouble(value)), 0))

\* (value) => value * 10, on an integer
TestScale_toPlatform(value) == Returned(Number(value.n * 10, 0))

\* (value) => value / 10, on an integer
TestScale_fromPlatform(value) == Returned(Number(value.n, 1))

\* calling the function held under `name`
ApplyConverter(name, value) ==
    CASE name = "TuyaBrightness_toPlatform" -> TuyaBrightness_toPlatform(value)
      [] name = "TuyaBrightness_fromPlatform" -> TuyaBrightness_fromPlatform(value)
      [] name = "SmartThingsHue_toPlatform" -> SmartThingsHue_toPlatform(value)
      [] name = "SmartThingsHue_fromPlatform" -> SmartThingsHue_fromPlatform(value)
      [] name = "TuyaColor_toPlatform" -> TuyaColor_toPlatform(value)
      [] name = "TuyaColor_fromPlatform" -> TuyaColor_fromPlatform(value)
      [] name = "LutronLevel_toPlatform" -> LutronLevel_toPlatform(value)
      [] name = "LutronLevel_fromPlatform" -> LutronLevel_fromPlatform(value)
      [] name = "TestScale_toPlatform" -> TestScale_toPlatform(value)
      [] name = "TestScale_fromPlatform" -> TestScale_fromPlatform(value)

---------------------------------------------------------------------------
(* ValueConversionRegistry                                                 *)

\* ValueConversionMapping
Conversion(p, cap, attr, to, from, description) ==
    [platform |-> p, capability |-> cap, attribute |-> attr,
     toPlatform |-> to, fromPlatform |-> from, description |-> description]

\* a mutant of makeKey: the attribute is left out of the key
ValueConversionRegistry_makeKeyNoAttribute(platform, capability, attribute) ==
    platform \o ":" \o capability

\* ValueConversionRegistry.makeKey: `${platform}:${capability}:${attribute}`
ValueConversionRegistry_makeKey(platform, capability, attribute) ==
    platform \o ":" \o capability \o ":" \o attribute

ConvState == [conversions |-> conversions, convRegistered |-> convRegistered]

\* a mutant of register: a key already held keeps its conversion
ValueConversionRegistry_registerFirstWins(st, conversion) ==
    LET key == ValueConversionRegistry_makeKey(conversion.platform,
                   conversion.capability, conversion.attribute)
    IN  [conversions |-> IF MapHas(st.conversions, key) THEN st.conversions
                         ELSE MapSet(st.conversions, key, conversion),
         convRegistered |-> Append(st.convRegistered, conversion)]

\* ValueConversionRegistry.register
ValueConversionRegistry_register(st, conversion) ==
    LET key == ValueConversionRegistry_makeKey(conversion.platform,
                   conversion.capability, conversion.attribute)
    IN  [conversions |-> MapSet(st.conversions, key, conversion),
         convRegistered |-> Append(st.convRegistered, conversion)]

\* a mutant of toPlatform: null, not the input, where no conversion is held
ValueConversionRegistry_toPlatformOrNull(platform, capability, attribute, value) ==
    LET key == ValueConversionRegistry_makeKey(platform, capability, attribute)
        conversion == MapGet(conversions, key)
    IN  IF conversion = Undefined THEN Returned(Null)
        ELSE ApplyConverter(conversion[1].toPlatform, value)

\* ValueConversionRegistry.toPlatform
ValueConversionRegistry_toPlatform(platform, capability, attribute, value) ==
    LET key == ValueConversionRegistry_makeKey(platform, capability, attribute)
        conversion == MapGet(conversions, key)
    IN  IF conversion = Undefined THEN Returned(value)
        ELSE ApplyConverter(conversion[1].toPlatform, value)

\* ValueConversionRegistry.fromPlatform
ValueConversionRegistry_fromPlatform(platform, capability, attribute, value) ==
    LET key == ValueConversionRegistry_makeKey(platform, capability, attribute)
        conversion == MapGet(conversions, key)
    IN  IF conversion = Undefined THEN Returned(value)
        ELSE ApplyConverter(conversion[1].fromPlatform, value)

\* a mutant of hasConversion: any attribute of the capability counts
hasConversionAnyAttribute(platform, capability, attribute) ==
    \E i \in 1..Len(conversions) :
        startsWith(conversions[i].key, platform \o ":" \o capability \o ":")

\* ValueConversionRegistry.hasConversion
hasConversion(platform, capability, attribute) ==
    MapHas(conversions,
           ValueConversionRegistry_makeKey(platform, capability, attribute))

\* ValueConversionRegistry.getConversion: conversions.get(key) ?? null
getConversion(platform, capability, attribute) ==
    LET key == ValueConversionRegistry_makeKey(platform, capability, attribute)
        found == MapGet(conversions, key)
    IN  IF found = Undefined THEN Null ELSE found

\* ValueConversionRegistry.clear
ValueConversionRegistry_clear(st) ==
    [conversions |-> <<>>, convRegistered |-> <<>>]

\* ValueConversionRegistry.getConversionCount
getConversionCount == MapSize(conversions)

\* the register calls of initializeValueConversions, in source order
StandardConversions ==
    << Conversion("tuya", "dimmer", "level", "TuyaBrightness_toPlatform",
           "TuyaBrightness_fromPlatform", "Tuya brightness scale: 0-1000 ↔ 0-100"),
       Conversion("smartthings", "color", "hue", "SmartThingsHue_toPlatform",
           "SmartThingsHue_fromPlatform", "SmartThings hue: 0-100% ↔ 0-360 degrees"),
       Conversion("tuya", "color", "color", "TuyaColor_toPlatform",
           "TuyaColor_fromPlatform", "Tuya color: HSV JSON string ↔ HSV object"),
       Conversion("lutron", "dimmer", "level", "LutronLevel_toPlatform",
           "LutronLevel_fromPlatform", "Lutron output: Round 0.00-100.00 to 0-100") >>

RECURSIVE registerAllConversions(_, _, _)
registerAllConversions(st, cs, i) ==
    IF i > Len(cs) THEN st
    ELSE registerAllConversions(ValueConversionRegistry_register(st, cs[i]), cs, i + 1)

\* initializeValueConversions
initializeValueConversions(st) == registerAllConversions(st, StandardConversions, 1)

---------------------------------------------------------------------------
(* Inputs of the explored calls                                            *)

\* mappings handed to CapabilityRegistry.register after the load
RegisterInputs ==
    { Mapping("tuya", "switch_led", "switch", FALSE, <<>>, <<>>, <<>>),
      Mapping("tuya", "switch_led", "dimmer", TRUE, <<"alias">>, <<>>, <<>>),
      Mapping("tuya", "bright_value", "dimmer", TRUE, <<"0-1000 → 0-100">>,
              <<>>, <<>>),
      Mapping("smartthings", "switch_led", "dimmer", FALSE, <<>>, <<>>, <<>>),
      Mapping("smartthings", "momentary", "button", FALSE, <<>>, <<TRUE>>,
              <<"Use \"button\" capability instead">>),
      Mapping("lutron", "", "shade", FALSE, <<>>, <<TRUE>>, <<>>) }

\* (platform, name) and (platform, capability) pairs looked up by the callers
LookupKeys ==
    { <<"tuya", "switch_led">>, <<"smartthings", "switch_led">>,
      <<"lutron", "">>, <<"lutron", "unknown_capability">> }

LookupCapabilities ==
    { <<"tuya", "dimmer">>, <<"lutron", "shade">>, <<"tuya", "occupancySensor">> }

\* conversions handed to ValueConversionRegistry.register after the load
ConversionInputs ==
    { Conversion("tuya", "dimmer", "level", "TestScale_toPlatform",
          "TestScale_fromPlatform", "Test conversion"),
      Conversion("smartthings", "dimmer", "level", "TuyaBrightness_toPlatform",
          "TuyaBrightness_fromPlatform", "Tuya brightness scale") }

ConversionKeys ==
    { <<"tuya", "dimmer", "level">>, <<"smartthings", "dimmer", "level">>,
      <<"smartthings", "color", "saturation">> }

Request(p, cap, attr, value) ==
    [platform |-> p, capability |-> cap, attribute |-> attr, value |-> value]

\* values converted by the callers after the load (each of the type its key's
\* converters take; any value under a key that never holds a converter)
ToPlatformInputs ==
    { Request("tuya", "dimmer", "level", Number(75, 0)),
      Request("smartthings", "dimmer", "level", Number(50, 0)),
      Request("smartthings", "color", "saturation", Number(805, 1)),
      Request("smartthings", "color", "saturation", String("80%")),
      Request("tuya", "color", "color",
              Hsv(Number(180, 0), Number(100, 0), Number(50, 0))),
      Request("lutron", "dimmer", "level", Number(1005, 3)) }

FromPlatformInputs ==
    { Request("tuya", "dimmer", "level", Number(755, 0)),
      Request("smartthings", "dimmer", "level", Number(75, 0)),
      Request("smartthings", "color", "saturation",
              Hsv(Number(1, 0), Number(2, 0), Number(3, 0))),
      Request("tuya", "color", "color", String("{\"h\":180,\"s\":100,\"v\":255}")),
      Request("tuya", "color", "color", String("{\"h\":180,\"s\":100")),
      Request("lutron", "dimmer", "level", Number(7345, 2)) }

---------------------------------------------------------------------------
(* Actions                                                                 *)

NoCall == [op |-> "none"]

SetCapState(st) ==
    /\ mappings' = st.mappings
    /\ reverseMappings' = st.reverseMappings
    /\ warnings' = st.warnings
    /\ registered' = st.registered

SetConvState(st) ==
    /\ conversions' = st.conversions
    /\ convRegistered' = st.convRegistered

\* module load, first statement: initializeCapabilityMappings()
LoadCapabilityMappings ==
    /\ pc = "load0"
    /\ SetCapState(initializeCapabilityMappings(CapState))
    /\ pc' = "load1"
    /\ UNCHANGED <<conversions, convRegistered, calls, call>>

\* module load, second statement: initializeValueConversions()
LoadValueConversions ==
    /\ pc = "load1"
    /\ SetConvState(initializeValueConversions(ConvState))
    /\ pc' = "ready"
    /\ UNCHANGED <<capVars, calls, call>>

\* one more call of the API by some caller, once the module is loaded
Calling == pc = "ready" /\ calls < MaxCalls /\ calls' = calls + 1 /\ pc' = pc

Completed(op, args) == [op |-> op, args |-> args, threw |-> FALSE]
Result(op, args, ret) == [op |-> op, args |-> args, ret |-> ret, threw |-> FALSE]

Register(mapping) ==
    /\ Calling
    /\ SetCapState(CapabilityRegistry_register(CapState, mapping))
    /\ call' = Completed("CapabilityRegistry.register", <<mapping>>)
    /\ UNCHANGED <<conversions, convRegistered>>

Clear ==
    /\ Calling
    /\ SetCapState(CapabilityRegistry_clear(CapState))
    /\ call' = Completed("CapabilityRegistry.clear", <<>>)
    /\ UNCHANGED <<conversions, convRegistered>>

InitializeCapabilityMappings ==
    /\ Calling
    /\ SetCapState(initializeCapabilityMappings(CapState))
    /\ call' = Completed("initializeCapabilityMappings", <<>>)
    /\ UNCHANGED <<conversions, convRegistered>>

GetUnifiedCapability(platform, name) ==
    /\ Calling
    /\ call' = Result("getUnifiedCapability", <<platform, name>>,
                      getUnifiedCapability(platform, name))
    /\ UNCHANGED <<capVars, conversions, convRegistered>>

GetPlatformCapability(platform, cap) ==
    /\ Calling
    /\ call' = Result("getPlatformCapability", <<platform, cap>>,
                      getPlatformCapability(platform, cap))
    /\ UNCHANGED <<capVars, conversions, convRegistered>>

IsPlatformSupported(platform, cap) ==
    /\ Calling
    /\ call' = Result("isPlatformSupported", <<platform, cap>>,
                      isPlatformSupported(platform, cap))
    /\ UNCHANGED <<capVars, conversions, convRegistered>>

GetSupportedCapabilities(platform) ==
    /\ Calling
    /\ call' = Result("getSupportedCapabilities", <<platform>>,
                      getSupportedCapabilities(platform))
    /\ UNCHANGED <<capVars, conversions, convRegistered>>

GetPlatformCapabilities(platform) ==
    /\ Calling
    /\ call' = Result("getPlatformCapabilities", <<platform>>,
                      getPlatformCapabilities(platform))
    /\ UNCHANGED <<capVars, conversions, convRegistered>>

GetMapping(platform, name) ==
    /\ Calling
    /\ call' = Result("getMapping", <<platform, name>>,
                      getMapping(platform, name))
    /\ UNCHANGED <<capVars, conversions, convRegistered>>

GetMappingCount ==
    /\ Calling
    /\ call' = Result("getMappingCount", <<>>, getMappingCount)
    /\ UNCHANGED <<capVars, conversions, convRegistered>>

RegisterConversion(conversion) ==
    /\ Calling
    /\ SetConvState(ValueConversionRegistry_register(ConvState, conversion))
    /\ call' = Completed("ValueConversionRegistry.register", <<conversion>>)
    /\ UNCHANGED capVars

ClearConversions ==
    /\ Calling
    /\ SetConvState(ValueConversionRegistry_clear(ConvState))
    /\ call' = Completed("ValueConversionRegistry.clear", <<>>)
    /\ UNCHANGED capVars

InitializeValueConversions ==
    /\ Calling
    /\ SetConvState(initializeValueConversions(ConvState))
    /\ call' = Completed("initializeValueConversions", <<>>)
    /\ UNCHANGED capVars

\* the call record of a conversion: what the converter returned or threw
Converted(op, x, out) ==
    IF out.threw
    THEN [op |-> op, args |-> x, threw |-> TRUE, error |-> out.error]
    ELSE [op |-> op, args |-> x, ret |-> out.value, threw |-> FALSE]

\* a mutant of the toPlatform call: a key holding no conversion is given an
\* identity conversion on its first use
ToPlatformRegisteringDefault(x) ==
    /\ Calling
    /\ call' = Converted("toPlatform", x,
                   ValueConversionRegistry_toPlatform(
                       x.platform, x.capability, x.attribute, x.value))
    /\ conversions' =
           IF hasConversion(x.platform, x.capability, x.attribute)
           THEN conversions
           ELSE MapSet(conversions,
                    ValueConversionRegistry_makeKey(x.platform, x.capability,
                        x.attribute),
                    Conversion(x.platform, x.capability, x.attribute,
                        "Identity", "Identity", "default"))
    /\ UNCHANGED <<capVars, convRegistered>>

ToPlatform(x) ==
    /\ Calling
    /\ call' = Converted("toPlatform", x,
                   ValueConversionRegistry_toPlatform(
                       x.platform, x.capability, x.attribute, x.value))
    /\ UNCHANGED <<capVars, conversions, convRegistered>>

FromPlatform(x) ==
    /\ Calling
    /\ call' = Converted("fromPlatform", x,
                   ValueConversionRegistry_fromPlatform(
                       x.platform, x.capability, x.attribute, x.value))
    /\ UNCHANGED <<capVars, conversions, convRegistered>>

HasConversion(platform, cap, attr) ==
    /\ Calling
    /\ call' = Result("hasConversion", <<platform, cap, attr>>,
                      hasConversion(platform, cap, attr))
    /\ UNCHANGED <<capVars, conversions, convRegistered>>

GetConversion(platform, cap, attr) ==
    /\ Calling
    /\ call' = Result("getConversion", <<platform, cap, attr>>,
                      getConversion(platform, cap, attr))
    /\ UNCHANGED <<capVars, conversions, convRegistered>>

GetConversionCount ==
    /\ Calling
    /\ call' = Result("getConversionCount", <<>>, getConversionCount)
    /\ UNCHANGED <<capVars, conversions, convRegistered>>

---------------------------------------------------------------------------
(* The program: module load, then any calls                                *)

Init ==
    /\ pc = "load0"
    /\ mappings = <<>>
    /\ reverseMappings = <<>>
    /\ conversions = <<>>
    /\ warnings = <<>>
    /\ registered = <<>>
    /\ convRegistered = <<>>
    /\ calls = 0
    /\ call = NoCall

Next ==
    \/ LoadCapabilityMappings
    \/ LoadValueConversions
    \/ \E m \in RegisterInputs : Register(m)
    \/ Clear
    \/ InitializeCapabilityMappings
    \/ \E k \in LookupKeys : GetUnifiedCapability(k[1], k[2])
    \/ \E k \in LookupCapabilities : GetPlatformCapability(k[1], k[2])
    \/ \E k \in LookupCapabilities : IsPlatformSupported(k[1], k[2])
    \/ \E p \in Platform : GetSupportedCapabilities(p)
    \/ \E p \in Platform : GetPlatformCapabilities(p)
    \/ \E k \in LookupKeys : GetMapping(k[1], k[2])
    \/ GetMappingCount
    \/ \E c \in ConversionInputs : RegisterConversion(c)
    \/ ClearConversions
    \/ InitializeValueConversions
    \/ \E x \in ToPlatformInputs : ToPlatform(x)
    \/ \E x \in FromPlatformInputs : FromPlatform(x)
    \/ \E k \in ConversionKeys : HasConversion(k[1], k[2], k[3])
    \/ \E k \in ConversionKeys : GetConversion(k[1], k[2], k[3])
    \/ GetConversionCount

Spec == Init /\ [][Next]_vars

---------------------------------------------------------------------------
(* The standard conversions over their whole input ranges: module load,    *)
(* then one conversion call                                                *)

\* the first call after the load
ConvertToPlatform(x) == calls = 0 /\ ToPlatform(x)
ConvertFromPlatform(x) == calls = 0 /\ FromPlatform(x)

Int0(n) == Number(n, 0)

\* unified { h, s, v } colours: every hue, every saturation and every value,
\* each with the other two members at a few values
HsvInputs ==
    {Hsv(Int0(h), Int0(100), Int0(100)) : h \in 0..360}
        \cup {Hsv(Int0(180), Int0(s), Int0(v)) : s \in 0..100, v \in {0, 50, 100}}
        \cup {Hsv(Int0(h), Int0(s), Int0(v)) : h \in {0, 180}, s \in {0, 100},
                                              v \in 0..100}

\* Tuya colour strings with integer members
TuyaColorInputs ==
    {String(JSON_stringify(h, s, v)) : h \in {0, 180, 360}, s \in {0, 100},
                                       v \in 0..255}

NextNumeric ==
    \/ LoadCapabilityMappings
    \/ LoadValueConversions
    \/ \E u \in 0..100 :
           ConvertToPlatform(Request("tuya", "dimmer", "level", Int0(u)))
    \/ \E p \in 0..1000 :
           ConvertFromPlatform(Request("tuya", "dimmer", "level", Int0(p)))
    \/ \E d \in 0..360 :
           ConvertToPlatform(Request("smartthings", "color", "hue", Int0(d)))
    \/ \E p \in 0..100 :
           ConvertFromPlatform(Request("smartthings", "color", "hue", Int0(p)))
    \/ \E c \in HsvInputs :
           ConvertToPlatform(Request("tuya", "color", "color", c))
    \/ \E s \in TuyaColorInputs :
           ConvertFromPlatform(Request("tuya", "color", "color", s))
    \/ \E u \in 0..100 :
           ConvertToPlatform(Request("lutron", "dimmer", "level", Int0(u)))
    \/ \E n \in 0..10000 :
           ConvertFromPlatform(Request("lutron", "dimmer", "level", Number(n, 2)))

SpecNumeric == Init /\ [][NextNumeric]_vars

---------------------------------------------------------------------------
(* Properties of the registries                                            *)

\* the (platform, name) pairs registered since the last clear
RegisteredKeys ==
    {<<registered[i].platform, registered[i].platformCapability>> :
         i \in 1..Len(registered)}

\* the (platform, unified capability) pairs registered since the last clear
RegisteredCapabilities ==
    {<<registered[i].platform, registered[i].unifiedCapability>> :
         i \in 1..Len(registered)}

\* the most recent register call with the given (platform, name)
LastByName(p, name) ==
    LET calls_ == {i \in 1..Len(registered) :
                      /\ registered[i].platform = p
                      /\ registered[i].platformCapability = name}
    IN  registered[CHOOSE i \in calls_ : \A j \in calls_ : j <= i]

\* the most recent register call with the given (platform, unified capability)
LastByCapability(p, cap) ==
    LET calls_ == {i \in 1..Len(registered) :
                      /\ registered[i].platform = p
                      /\ registered[i].unifiedCapability = cap}
    IN  registered[CHOOSE i \in calls_ : \A j \in calls_ : j <= i]

\* C1: after any register and clear calls, for every (platform, name)
\* registered since the last clear getUnifiedCapability returns the unified
\* capability of the most recent register call with that pair and getMapping
\* returns that call's whole record; a later register overwrites an earlier.
C1_LastRegisteredWins ==
    \A k \in RegisteredKeys :
        /\ getUnifiedCapability(k[1], k[2])
               = Some(LastByName(k[1], k[2]).unifiedCapability)
        /\ getMapping(k[1], k[2]) = Some(LastByName(k[1], k[2]))

\* tuya switch_led was registered again under another capability, with notes,
\* and the lookup returned the later capability
C1_Witness ==
    /\ call.op = "getUnifiedCapability"
    /\ call.args = <<"tuya", "switch_led">>
    /\ call.ret = Some("dimmer")
    /\ \E i \in 1..Len(registered) :
           /\ registered[i].platform = "tuya"
           /\ registered[i].platformCapability = "switch_led"
           /\ registered[i].unifiedCapability = "switch"
    /\ getMapping("tuya", "switch_led")[1].notes = <<"alias">>

\* C2: after any register calls since the last clear, getPlatformCapability
\* returns the platform name of the most recent register call with that
\* (platform, unified capability): the one name when one was registered, the
\* most recently registered when several were.
C2_LastAliasWins ==
    \A k \in RegisteredCapabilities :
        getPlatformCapability(k[1], k[2])
            = Some(LastByCapability(k[1], k[2]).platformCapability)

\* tuya dimmer has the names bright_value and, registered later, switch_led;
\* the lookup returned the later one
C2_Witness ==
    /\ call.op = "getPlatformCapability"
    /\ call.args = <<"tuya", "dimmer">>
    /\ call.ret = Some("switch_led")
    /\ \E i \in 1..Len(registered) :
           /\ registered[i].platform = "tuya"
           /\ registered[i].unifiedCapability = "dimmer"
           /\ registered[i].platformCapability = "bright_value"

\* the last call was a conversion under a key that holds no conversion
ConvertedWithoutConversion ==
    /\ call.op \in {"toPlatform", "fromPlatform"}
    /\ ~hasConversion(call.args.platform, call.args.capability,
                      call.args.attribute)

\* C3: under a key with no registered conversion (every key, after clear)
\* toPlatform and fromPlatform return the input value unchanged, whatever
\* the value.
C3_IdentityWithoutConversion ==
    /\ ConvertedWithoutConversion => ~call.threw /\ call.ret = call.args.value
    /\ \A x \in ToPlatformInputs \cup FromPlatformInputs :
           ~hasConversion(x.platform, x.capability, x.attribute)
               => /\ ValueConversionRegistry_toPlatform(x.platform,
                         x.capability, x.attribute, x.value) = Returned(x.value)
                  /\ ValueConversionRegistry_fromPlatform(x.platform,
                         x.capability, x.attribute, x.value) = Returned(x.value)

\* after clear() a string went through fromPlatform under the key of the
\* standard Tuya colour conversion and came back as it was
C3_Witness ==
    /\ conversions = <<>>
    /\ call.op = "fromPlatform"
    /\ call.args.platform = "tuya"
    /\ call.args.attribute = "color"
    /\ ~call.threw
    /\ call.ret = String("{\"h\":180,\"s\":100")

\* the array has no element twice
NoDuplicates(s) == \A i, j \in 1..Len(s) : s[i] = s[j] => i = j

\* C4: in every registry state a caller can reach (the module loaded) and
\* for every platform, getSupportedCapabilities holds no unified capability
\* more than once and holds only members of the 31-value DeviceCapability
\* set.
C4_SupportedCapabilitiesIsSet ==
    pc = "ready"
        => \A p \in Platform :
               /\ NoDuplicates(getSupportedCapabilities(p))
               /\ \A i \in 1..Len(getSupportedCapabilities(p)) :
                      getSupportedCapabilities(p)[i] \in DeviceCapability

\* C5: in every reachable registry state and for every (platform,
\* capability), isPlatformSupported is true exactly when
\* getPlatformCapability is not null.
C5_SupportedIffHasName ==
    \A p \in Platform, cap \in DeviceCapability :
        isPlatformSupported(p, cap) <=> getPlatformCapability(p, cap) # Null

\* lutron shade was registered under the empty name: the lookup returned the
\* empty string, which is not null, and the capability is supported
C5_Witness ==
    /\ call.op = "getPlatformCapability"
    /\ call.args = <<"lutron", "shade">>
    /\ call.ret = Some("")
    /\ isPlatformSupported("lutron", "shade")

\* the conversion keys registered since the last clear
ConvRegisteredKeys ==
    {<<convRegistered[i].platform, convRegistered[i].capability,
       convRegistered[i].attribute>> : i \in 1..Len(convRegistered)}

\* the keys the lookups are asked for
AskedKeys == LookupKeys \cup {<<m.platform, m.platformCapability>> : m \in RegisterInputs}
AskedCapabilities == Platform \X DeviceCapability
AskedConversionKeys ==
    ConversionKeys \cup {<<c.platform, c.capability, c.attribute>> :
                            c \in ConversionInputs}
        \cup {<<StandardConversions[i].platform, StandardConversions[i].capability,
                StandardConversions[i].attribute>> : i \in 1..Len(StandardConversions)}

NeverThrowing ==
    {"getUnifiedCapability", "getPlatformCapability", "getMapping",
     "isPlatformSupported", "hasConversion", "getConversion",
     "CapabilityRegistry.register", "CapabilityRegistry.clear",
     "getMappingCount"}

\* C6: a lookup miss is no error: getUnifiedCapability, getPlatformCapability
\* and getMapping return null, isPlatformSupported and hasConversion return
\* false and getConversion returns null exactly when no entry exists for the
\* key asked for, and neither these nor register, clear and getMappingCount
\* raise an exception.
C6_MissIsNotAnError ==
    LET keys == RegisteredKeys
        capabilities == RegisteredCapabilities
        conversionKeys == ConvRegisteredKeys
    IN  /\ \A k \in AskedKeys :
               /\ getUnifiedCapability(k[1], k[2]) = Null <=> k \notin keys
               /\ getMapping(k[1], k[2]) = Null <=> k \notin keys
        /\ \A k \in AskedCapabilities :
               /\ getPlatformCapability(k[1], k[2]) = Null
                      <=> k \notin capabilities
               /\ ~isPlatformSupported(k[1], k[2]) <=> k \notin capabilities
        /\ \A k \in AskedConversionKeys :
               /\ ~hasConversion(k[1], k[2], k[3]) <=> k \notin conversionKeys
               /\ getConversion(k[1], k[2], k[3]) = Null
                      <=> k \notin conversionKeys
        /\ call.op \in NeverThrowing => ~call.threw
        /\ call.op \in {"getUnifiedCapability", "getMapping"}
               => (call.ret = Null
                       <=> <<call.args[1], call.args[2]>> \notin keys)

\* a lookup under the wrong platform missed and returned null
C6_Witness ==
    /\ call.op = "getUnifiedCapability"
    /\ call.args = <<"smartthings", "switch_led">>
    /\ call.ret = Null
    /\ ~call.threw
    /\ getUnifiedCapability("tuya", "switch_led") # Null

---------------------------------------------------------------------------
(* Properties of the standard conversions                                  *)

\* the last call was `op` on the conversion key (p, cap, attr)
Called(op, p, cap, attr) ==
    /\ call.op = op
    /\ call.args.platform = p
    /\ call.args.capability = cap
    /\ call.args.attribute = attr

\* the last call returned the integer r
ReturnedInt(r) == ~call.threw /\ call.ret = Int0(r)

\* the integer the last call returned (0 if it returned none)
RetInt ==
    IF ~call.threw /\ call.ret.t = "number" /\ call.ret.k = 0 THEN call.ret.n ELSE 0

IsInt == ~call.threw /\ call.ret.t = "number" /\ call.ret.k = 0

Abs(x) == IF x < 0 THEN -x ELSE x

\* C7: after initialization the Tuya dimmer level conversion is the scale by
\* ten: toPlatform gives 10*u for every integer u in 0..100, fromPlatform gives
\* the integer nearest to p/10 with ties rounded up for every integer p in
\* 0..1000; fromPlatform(750) = 75, toPlatform(75) = 750, 50 <-> 500.
C7_TuyaLevelScale ==
    /\ Called("toPlatform", "tuya", "dimmer", "level")
           => ReturnedInt(10 * call.args.value.n)
    /\ Called("fromPlatform", "tuya", "dimmer", "level")
           => /\ IsInt
              /\ 10 * RetInt - 5 <= call.args.value.n
              /\ call.args.value.n < 10 * RetInt + 5
    /\ Called("fromPlatform", "tuya", "dimmer", "level")
           => /\ call.args.value = Int0(750) => ReturnedInt(75)
              /\ call.args.value = Int0(500) => ReturnedInt(50)
    /\ Called("toPlatform", "tuya", "dimmer", "level")
           => /\ call.args.value = Int0(75) => ReturnedInt(750)
              /\ call.args.value = Int0(50) => ReturnedInt(500)

\* a tie of p/10 was converted: 755 -> 76
C7_Witness ==
    /\ Called("fromPlatform", "tuya", "dimmer", "level")
    /\ call.args.value = Int0(755)
    /\ ReturnedInt(76)

\* C8: after initialization the SmartThings colour hue conversion has factor
\* 3.6: toPlatform gives the integer nearest to d/3.6 for every integer d in
\* 0..360, fromPlatform the integer nearest to 3.6*p for every integer p in
\* 0..100; fromPlatform(50) = 180, toPlatform(270) = 75, toPlatform(180) = 50.
C8_SmartThingsHueScale ==
    /\ Called("toPlatform", "smartthings", "color", "hue")
           => IsInt /\ Abs(10 * call.args.value.n - 36 * RetInt) <= 18
    /\ Called("fromPlatform", "smartthings", "color", "hue")
           => IsInt /\ Abs(36 * call.args.value.n - 10 * RetInt) <= 5
    /\ Called("fromPlatform", "smartthings", "color", "hue")
           => (call.args.value = Int0(50) => ReturnedInt(180))
    /\ Called("toPlatform", "smartthings", "color", "hue")
           => /\ call.args.value = Int0(270) => ReturnedInt(75)
              /\ call.args.value = Int0(180) => ReturnedInt(50)

\* a degree value that is not a multiple of 3.6 was converted: 100 -> 28
C8_Witness ==
    /\ Called("toPlatform", "smartthings", "color", "hue")
    /\ call.args.value = Int0(100)
    /\ ReturnedInt(28)

\* the members of the Tuya colour string the last call returned
Encoded == JSON_parse(call.ret.s)

\* C9: after initialization the Tuya colour conversion scales only v: for
\* integers h, s, v in range toPlatform gives a well-formed record with the
\* same h and s and v' the integer nearest to 2.55*v, within 0..255 (254 or
\* 255 for v = 100); fromPlatform on a well-formed record with integer
\* members keeps h and s and gives v the integer nearest to v'/2.55; the
\* record {"h":180,"s":100,"v":255} decodes to {h:180, s:100, v:100}.
C9_TuyaColorScalesV ==
    /\ Called("toPlatform", "tuya", "color", "color")
           => /\ ~call.threw /\ call.ret.t = "string" /\ Encoded.ok
              /\ Encoded.h = call.args.value.h.n
              /\ Encoded.s = call.args.value.s.n
              /\ Abs(255 * call.args.value.v.n - 100 * Encoded.v) <= 50
              /\ Encoded.v \in 0..255
              /\ call.args.value.v = Int0(100) => Encoded.v \in {254, 255}
    /\ Called("fromPlatform", "tuya", "color", "color")
           => /\ ~call.threw /\ call.ret.t = "object"
              /\ call.ret.h = Int0(JSON_parse(call.args.value.s).h)
              /\ call.ret.s = Int0(JSON_parse(call.args.value.s).s)
              /\ call.ret.v.t = "number" /\ call.ret.v.k = 0
              /\ Abs(200 * JSON_parse(call.args.value.s).v - 510 * call.ret.v.n)
                     <= 255
    /\ Called("fromPlatform", "tuya", "color", "color")
           => (call.args.value = String("{\"h\":180,\"s\":100,\"v\":255}")
                   => ~call.threw
                          /\ call.ret = Hsv(Int0(180), Int0(100), Int0(100)))

\* a half-way value of 2.55*v was encoded: v = 50 (127.5) -> 127
C9_Witness ==
    /\ Called("toPlatform", "tuya", "color", "color")
    /\ call.args.value = Hsv(Int0(180), Int0(100), Int0(50))
    /\ ~call.threw
    /\ call.ret = String("{\"h\":180,\"s\":100,\"v\":127}")

\* C10: after initialization the Lutron dimmer level conversion rounds one
\* way only: fromPlatform gives the nearest integer for every two-decimal
\* value in 0.00..100.00 (73.45 -> 73), toPlatform gives every integer u in
\* 0..100 unchanged, and fromPlatform(toPlatform(u)) = u.
C10_LutronLevelPrecision ==
    /\ Called("fromPlatform", "lutron", "dimmer", "level")
           => /\ IsInt
              /\ Abs(call.args.value.n * 10 ^ (2 - call.args.value.k)
                         - 100 * RetInt) <= 50
    /\ Called("toPlatform", "lutron", "dimmer", "level")
           => /\ ~call.threw
              /\ call.ret = call.args.value
              /\ ValueConversionRegistry_fromPlatform("lutron", "dimmer",
                     "level", call.ret) = Returned(call.args.value)
    /\ Called("fromPlatform", "lutron", "dimmer", "level")
           => (call.args.value = Number(7345, 2) => ReturnedInt(73))

\* a platform value with two decimals was rounded: 73.45 -> 73
C10_Witness ==
    /\ Called("fromPlatform", "lutron", "dimmer", "level")
    /\ call.args.value = Number(7345, 2)
    /\ ReturnedInt(73)

---------------------------------------------------------------------------
(* Properties of the initialization                                        *)

\* the registry holds what the initialization registers on an empty registry
\* (right after the load, or after clear() and a new initialization)
FreshlyInitialized == registered = StandardMappings
ConversionsFreshlyInitialized == convRegistered = StandardConversions

\* C11: after initialization getMappingCount() > 50 and getConversionCount()
\* >= 4, and after clear() and a new initialization of either registry its
\* count is again the value after the first initialization (59 mappings, 4
\* conversions).
C11_CountsAfterInitialization ==
    /\ (pc = "ready" /\ calls = 0)
           => /\ getMappingCount > 50 /\ getMappingCount = 59
              /\ getConversionCount >= 4 /\ getConversionCount = 4
    /\ (pc = "ready" /\ FreshlyInitialized) => getMappingCount = 59
    /\ (pc = "ready" /\ ConversionsFreshlyInitialized) => getConversionCount = 4

\* the capability registry was cleared and initialized again
C11_Witness ==
    /\ calls = 2
    /\ call.op = "initializeCapabilityMappings"
    /\ FreshlyInitialized
    /\ getMappingCount = 59

\* the array holds x
Includes(s, x) == \E i \in 1..Len(s) : s[i] = x

\* C12: after initialization SmartThings covers all 31 capabilities:
\* isPlatformSupported("smartthings", c) is true and c is in
\* getSupportedCapabilities("smartthings") for every DeviceCapability c.
C12_SmartThingsFullCoverage ==
    (pc = "ready" /\ FreshlyInitialized)
        => \A c \in DeviceCapability :
               /\ isPlatformSupported("smartthings", c)
               /\ Includes(getSupportedCapabilities("smartthings"), c)

\* C13: after initialization Tuya supports exactly 30 of the 31 capabilities:
\* isPlatformSupported("tuya", c) is true for every DeviceCapability c except
\* occupancySensor, for which it is false.
C13_TuyaAllButOccupancy ==
    (pc = "ready" /\ FreshlyInitialized)
        => \A c \in DeviceCapability :
               isPlatformSupported("tuya", c) <=> c # "occupancySensor"

\* C14: after initialization getMappingCount() is at least 60: 67 in all,
\* being 31 SmartThings, 30 Tuya and 6 Lutron names as getPlatformCapabilities
\* returns them.
C14_DocumentedMappingCount ==
    (pc = "ready" /\ FreshlyInitialized)
        => /\ getMappingCount >= 60
           /\ getMappingCount = 67
           /\ Len(getPlatformCapabilities("smartthings")) = 31
           /\ Len(getPlatformCapabilities("tuya")) = 30
           /\ Len(getPlatformCapabilities("lutron")) = 6

\* the last call registered the mapping m
Registered(m) == call.op = "CapabilityRegistry.register" /\ call.args = <<m>>

\* C15: a mapping marked deprecated is looked up like any other: right after
\* register(m) getUnifiedCapability gives m.unifiedCapability,
\* getPlatformCapability gives m.platformCapability and isPlatformSupported
\* is true, whether m is deprecated or not.
C15_DeprecatedIsLookedUp ==
    \A m \in RegisterInputs :
        Registered(m)
            => /\ getUnifiedCapability(m.platform, m.platformCapability)
                      = Some(m.unifiedCapability)
               /\ getPlatformCapability(m.platform, m.unifiedCapability)
                      = Some(m.platformCapability)
               /\ isPlatformSupported(m.platform, m.unifiedCapability)

\* the deprecated SmartThings momentary mapping was just registered on a
\* cleared registry and is the only entry
C15_Witness ==
    /\ call.op = "CapabilityRegistry.register"
    /\ call.args[1].platformCapability = "momentary"
    /\ TruthyBool(call.args[1].deprecated)
    /\ getMappingCount = 1
    /\ getUnifiedCapability("smartthings", "momentary") = Some("button")

\* C16: every register call with a mapping marked deprecated writes one
\* warning, a register call with a mapping not marked deprecated writes
\* none, and the registration completes either way.
C16_DeprecatedWarns ==
    [][\A m \in RegisterInputs :
           (Registered(m)' /\ calls' = calls + 1)
               => /\ IF TruthyBool(m.deprecated)
                     THEN Len(warnings') = Len(warnings) + 1
                     ELSE warnings' = warnings
                  /\ ~call'.threw
                  /\ getMapping(m.platform, m.platformCapability)' = Some(m)]_vars

---------------------------------------------------------------------------
(* Properties of errors and of clear                                       *)

\* the Tuya colour key holds the conversion the initialization registers
HoldsTuyaColorConversion ==
    getConversion("tuya", "color", "color") = Some(StandardConversions[3])

\* the step is a fromPlatform call on the Tuya colour key with a text that is
\* no JSON
MalformedColorCall ==
    /\ calls' = calls + 1
    /\ call'.op = "fromPlatform"
    /\ call'.args.platform = "tuya"
    /\ call'.args.capability = "color"
    /\ call'.args.attribute = "color"
    /\ call'.args.value.t = "string"
    /\ ~JSON_parse(call'.args.value.s).ok

\* C17: with the standard Tuya colour conversion held, a malformed colour
\* string given to fromPlatform("tuya", "color", "color", s) raises the
\* parser's error to the caller (it is not caught, wrapped or replaced by
\* the input), and both registries stay exactly as they were.
C17_ParseErrorPropagates ==
    [][(HoldsTuyaColorConversion /\ MalformedColorCall)
           => /\ call'.threw
              /\ call'.error = "SyntaxError"
              /\ UNCHANGED <<mappings, reverseMappings, conversions>>]_vars

\* a truncated colour string was given to fromPlatform and the call threw
C17_Witness ==
    /\ call.op = "fromPlatform"
    /\ call.args.value = String("{\"h\":180,\"s\":100")
    /\ HoldsTuyaColorConversion
    /\ call.threw
    /\ call.error = "SyntaxError"

\* every platform name the model meets
AllNames ==
    {k[2] : k \in AskedKeys}
        \cup {StandardMappings[i].platformCapability :
                  i \in 1..Len(StandardMappings)}

\* C18: right after CapabilityRegistry.clear() getMappingCount() = 0,
\* getSupportedCapabilities and getPlatformCapabilities are empty for every
\* platform and every forward lookup, getMapping, reverse lookup and
\* isPlatformSupported reports absence; right after
\* ValueConversionRegistry.clear() getConversionCount() = 0 and
\* hasConversion is false for every key.
C18_ClearWipesBothMaps ==
    /\ call.op = "CapabilityRegistry.clear"
           => /\ getMappingCount = 0
              /\ \A p \in Platform :
                     /\ getSupportedCapabilities(p) = <<>>
                     /\ getPlatformCapabilities(p) = <<>>
                     /\ \A name \in AllNames :
                            /\ getUnifiedCapability(p, name) = Null
                            /\ getMapping(p, name) = Null
                     /\ \A c \in DeviceCapability :
                            /\ getPlatformCapability(p, c) = Null
                            /\ ~isPlatformSupported(p, c)
    /\ call.op = "ValueConversionRegistry.clear"
           => /\ getConversionCount = 0
              /\ \A k \in AskedConversionKeys : ~hasConversion(k[1], k[2], k[3])

\* the registry as loaded, deprecation warning written, was cleared
C18_Witness ==
    /\ calls = 1
    /\ call.op = "CapabilityRegistry.clear"
    /\ warnings # <<>>
    /\ reverseMappings = <<>>
    /\ conversions # <<>>

---------------------------------------------------------------------------
(* Properties of the conversion registry                                   *)

\* saturation values a caller may pass
SaturationValues == {Number(80, 0), Number(805, 1), String("80%")}

\* C19: after initialization no conversion is held for the saturation
\* attribute of colour on any platform: hasConversion(p, "color",
\* "saturation") is false for every platform p, and toPlatform and
\* fromPlatform return a saturation value unchanged.
C19_SaturationPassesThrough ==
    /\ (pc = "ready" /\ ConversionsFreshlyInitialized)
           => \A p \in Platform :
                  /\ ~hasConversion(p, "color", "saturation")
                  /\ \A v \in SaturationValues :
                         /\ ValueConversionRegistry_toPlatform(p, "color",
                                "saturation", v) = Returned(v)
                         /\ ValueConversionRegistry_fromPlatform(p, "color",
                                "saturation", v) = Returned(v)
    /\ (/\ ConversionsFreshlyInitialized
        /\ call.op \in {"toPlatform", "fromPlatform"}
        /\ call.args.capability = "color"
        /\ call.args.attribute = "saturation")
           => ~call.threw /\ call.ret = call.args.value

\* right after the load a saturation of 80.5 went through toPlatform
C19_Witness ==
    /\ calls = 1
    /\ ConversionsFreshlyInitialized
    /\ call.op = "toPlatform"
    /\ call.args.attribute = "saturation"
    /\ call.args.value = Number(805, 1)
    /\ call.ret = Number(805, 1)

\* the most recent ValueConversionRegistry.register call with the key k
LastConversion(k) ==
    LET calls_ == {i \in 1..Len(convRegistered) :
                      /\ convRegistered[i].platform = k[1]
                      /\ convRegistered[i].capability = k[2]
                      /\ convRegistered[i].attribute = k[3]}
    IN  convRegistered[CHOOSE i \in calls_ : \A j \in calls_ : j <= i]

\* the key of the last conversion call
CallKey == <<call.args.platform, call.args.capability, call.args.attribute>>

\* what the last call gave: returned value or thrown error
Outcome ==
    IF call.threw THEN Thrown(call.error) ELSE Returned(call.ret)

\* C20: ValueConversionRegistry.register is last-write-wins per key: after
\* any register and clear calls getConversion, toPlatform and fromPlatform
\* use the converter pair of the most recent register call with the key,
\* hasConversion is true exactly for the keys registered since the last
\* clear, and getConversionCount() is the number of distinct such keys.
C20_ConversionLastWriteWins ==
    LET keys == ConvRegisteredKeys
    IN  /\ \A k \in keys : getConversion(k[1], k[2], k[3]) = Some(LastConversion(k))
        /\ \A k \in AskedConversionKeys : hasConversion(k[1], k[2], k[3]) <=> k \in keys
        /\ getConversionCount = Cardinality(keys)
        /\ (call.op = "toPlatform" /\ CallKey \in keys)
               => Outcome = ApplyConverter(LastConversion(CallKey).toPlatform,
                                           call.args.value)
        /\ (call.op = "fromPlatform" /\ CallKey \in keys)
               => Outcome = ApplyConverter(LastConversion(CallKey).fromPlatform,
                                           call.args.value)

\* the test conversion was registered over the standard Tuya level
\* conversion, and fromPlatform(755) gave its 75.5, not the standard 76
C20_Witness ==
    /\ call.op = "fromPlatform"
    /\ CallKey = <<"tuya", "dimmer", "level">>
    /\ call.args.value = Number(755, 0)
    /\ ~call.threw
    /\ call.ret = Number(755, 1)
    /\ Len(convRegistered) = 5

---------------------------------------------------------------------------
(* Properties of the life of an entry                                      *)

\* the step is a call of CapabilityRegistry.clear / ValueConversionRegistry.clear
CapabilityClearStep ==
    calls' = calls + 1 /\ call'.op = "CapabilityRegistry.clear"
ConversionClearStep ==
    calls' = calls + 1 /\ call'.op = "ValueConversionRegistry.clear"

\* C21: no operation other than clear() removes an entry: over every step
\* that is not a clear() of the owning registry, a name with a non-null
\* getUnifiedCapability keeps one, a capability with isPlatformSupported
\* true stays supported, a key with hasConversion true keeps it, and
\* getMappingCount() and getConversionCount() do not decrease.
C21_OnlyClearRemoves ==
    [][/\ ~CapabilityClearStep
              => \/ UNCHANGED <<mappings, reverseMappings>>
                 \/ /\ \A i \in 1..Len(mappings) :
                           getUnifiedCapability(mappings[i].value.platform,
                               mappings[i].value.platformCapability)' # Null
                    /\ \A p \in Platform, c \in DeviceCapability :
                           isPlatformSupported(p, c)
                               => isPlatformSupported(p, c)'
                    /\ getMappingCount' >= getMappingCount
       /\ ~ConversionClearStep
              => \/ UNCHANGED conversions
                 \/ /\ \A i \in 1..Len(conversions) :
                           hasConversion(conversions[i].value.platform,
                               conversions[i].value.capability,
                               conversions[i].value.attribute)'
                    /\ getConversionCount' >= getConversionCount]_vars

\* a new name was registered after the load: 60 entries, the loaded ones kept
C21_Witness ==
    /\ call.op = "CapabilityRegistry.register"
    /\ call.args[1].platform = "smartthings"
    /\ call.args[1].platformCapability = "switch_led"
    /\ getMappingCount = 60
    /\ getUnifiedCapability("smartthings", "switch") = Some("switch")
    /\ isPlatformSupported("smartthings", "dimmer")
    /\ getPlatformCapability("smartthings", "dimmer") = Some("switch_led")

---------------------------------------------------------------------------
(* Properties of the readers                                               *)

\* the operations that are lookups or conversions
ReaderOps ==
    {"getUnifiedCapability", "getPlatformCapability", "isPlatformSupported",
     "getSupportedCapabilities", "getPlatformCapabilities", "getMapping",
     "getMappingCount", "toPlatform", "fromPlatform", "hasConversion",
     "getConversion", "getConversionCount"}

\* the call record the reader call c gives when made in the current state
Answer(c) ==
    CASE c.op = "getUnifiedCapability" ->
             Result(c.op, c.args, getUnifiedCapability(c.args[1], c.args[2]))
      [] c.op = "getPlatformCapability" ->
             Result(c.op, c.args, getPlatformCapability(c.args[1], c.args[2]))
      [] c.op = "isPlatformSupported" ->
             Result(c.op, c.args, isPlatformSupported(c.args[1], c.args[2]))
      [] c.op = "getSupportedCapabilities" ->
             Result(c.op, c.args, getSupportedCapabilities(c.args[1]))
      [] c.op = "getPlatformCapabilities" ->
             Result(c.op, c.args, getPlatformCapabilities(c.args[1]))
      [] c.op = "getMapping" ->
             Result(c.op, c.args, getMapping(c.args[1], c.args[2]))
      [] c.op = "getMappingCount" -> Result(c.op, c.args, getMappingCount)
      [] c.op = "toPlatform" ->
             Converted(c.op, c.args,
                 ValueConversionRegistry_toPlatform(c.args.platform,
                     c.args.capability, c.args.attribute, c.args.value))
      [] c.op = "fromPlatform" ->
             Converted(c.op, c.args,
                 ValueConversionRegistry_fromPlatform(c.args.platform,
                     c.args.capability, c.args.attribute, c.args.value))
      [] c.op = "hasConversion" ->
             Result(c.op, c.args,
                 hasConversion(c.args[1], c.args[2], c.args[3]))
      [] c.op = "getConversion" ->
             Result(c.op, c.args,
                 getConversion(c.args[1], c.args[2], c.args[3]))
      [] c.op = "getConversionCount" ->
             Result(c.op, c.args, getConversionCount)

\* C22: every lookup and conversion call leaves both registries as they
\* were, so the call made again after any reader gives the result it gave
\* (a lookup the same answer, a conversion the same converter of its key):
\* readers that follow the initialization need no locking.
C22_ReadersChangeNothing ==
    [][(calls' = calls + 1 /\ call'.op \in ReaderOps)
           => /\ UNCHANGED <<mappings, reverseMappings, conversions,
                             warnings, registered, convRegistered>>
              /\ \A c \in {call'} :
                     /\ c = Answer(c)
                     /\ IF c.op \in {"toPlatform", "fromPlatform"}
                        THEN getConversion(c.args.platform, c.args.capability,
                                 c.args.attribute)'
                                 = getConversion(c.args.platform,
                                       c.args.capability, c.args.attribute)
                        ELSE c = Answer(c)']_vars

\* two readers ran on the registries as loaded: the second, a conversion
\* under a key holding no converter, found them as the load left them
C22_Witness ==
    /\ calls = 2
    /\ call.op = "toPlatform"
    /\ call.args.attribute = "saturation"
    /\ FreshlyInitialized
    /\ ConversionsFreshlyInitialized
    /\ Len(warnings) = 1
    /\ getConversionCount = 4

---------------------------------------------------------------------------
(* Properties relating the platforms and the two maps                      *)

\* platform names the callers register or look up
ProbedNames ==
    {k[2] : k \in LookupKeys} \cup {m.platformCapability : m \in RegisterInputs}

\* capabilities the callers register or look up
ProbedCapabilities ==
    {k[2] : k \in LookupCapabilities}
        \cup {m.unifiedCapability : m \in RegisterInputs}

\* C23: mappings are isolated per platform: a register(m) call changes no
\* result of getUnifiedCapability, getMapping, getPlatformCapability,
\* isPlatformSupported, getSupportedCapabilities or getPlatformCapabilities
\* for a platform other than m.platform (nor any of its reverse entries),
\* and after it the two enumerations of m.platform (the ones it changes)
\* hold, place by place, only names and capabilities registered under that
\* platform.
C23_PlatformIsolation ==
    [][\A m \in RegisterInputs :
           (Registered(m)' /\ calls' = calls + 1)
               => /\ \A p \in Platform \ {m.platform} :
                         /\ \A n \in ProbedNames :
                                /\ getUnifiedCapability(p, n)'
                                       = getUnifiedCapability(p, n)
                                /\ getMapping(p, n)' = getMapping(p, n)
                         /\ \A c \in ProbedCapabilities :
                                /\ getPlatformCapability(p, c)'
                                       = getPlatformCapability(p, c)
                                /\ isPlatformSupported(p, c)'
                                       = isPlatformSupported(p, c)
                         /\ PlatformEntries(reverseMappings, p)'
                                = PlatformEntries(reverseMappings, p)
                         /\ getSupportedCapabilities(p)'
                                = getSupportedCapabilities(p)
                         /\ getPlatformCapabilities(p)'
                                = getPlatformCapabilities(p)
                  /\ \A names \in {getPlatformCapabilities(m.platform)'},
                        caps \in {getSupportedCapabilities(m.platform)'},
                        regs \in {registered'} :
                         \A i \in 1..Len(names) :
                             \E j \in 1..Len(regs) :
                                 /\ regs[j].platform = m.platform
                                 /\ regs[j].platformCapability = names[i]
                                 /\ regs[j].unifiedCapability = caps[i]]_vars

\* switch_led, a Tuya name since the load, was registered for SmartThings:
\* each platform lists it once and maps it its own way
C23_Witness ==
    /\ call.op = "CapabilityRegistry.register"
    /\ call.args[1].platform = "smartthings"
    /\ call.args[1].platformCapability = "switch_led"
    /\ getUnifiedCapability("smartthings", "switch_led") = Some("dimmer")
    /\ getUnifiedCapability("tuya", "switch_led") = Some("switch")
    /\ getUnifiedCapability("lutron", "switch_led") = Null
    /\ Includes(getPlatformCapabilities("tuya"), "switch_led")
    /\ ~Includes(getPlatformCapabilities("lutron"), "switch_led")

\* C24: the two support queries agree in every state: for every platform p
\* and capability c, isPlatformSupported(p, c) is true exactly when c is an
\* element of getSupportedCapabilities(p).
C24_SupportQueriesAgree ==
    \A p \in Platform :
        \A caps \in {getSupportedCapabilities(p)} :
            \A c \in DeviceCapability :
                isPlatformSupported(p, c) <=> Includes(caps, c)

\* C25: reverse-then-forward lookup is consistent in every state: whenever
\* getPlatformCapability(p, c) returns a name n, getUnifiedCapability(p, n)
\* returns c.
C25_ReverseThenForward ==
    \A p \in Platform, c \in DeviceCapability :
        \A n \in {getPlatformCapability(p, c)} :
            n # Null => getUnifiedCapability(p, n[1]) = Some(c)

\* C26: after initialization the reverse lookup never yields a deprecated
\* name: for every platform p and capability c with getPlatformCapability(p,
\* c) = n non-null, getMapping(p, n) is not marked deprecated.
C26_ReverseNeverDeprecated ==
    (pc = "ready" /\ FreshlyInitialized)
        => \A p \in Platform, c \in DeviceCapability :
               \A n \in {getPlatformCapability(p, c)} :
                   n # Null
                       => \A m \in {getMapping(p, n[1])} :
                              m # Null /\ ~TruthyBool(m[1].deprecated)

\* attributes a conversion is registered or asked for
Attributes ==
    {StandardConversions[i].attribute : i \in 1..Len(StandardConversions)}
        \cup {k[3] : k \in ConversionKeys}

\* C27: after initialization every registered mapping m with
\* conversionRequired = true has an attribute a with
\* hasConversion(m.platform, m.unifiedCapability, a) true.
C27_ConversionRequiredIsBacked ==
    (pc = "ready" /\ FreshlyInitialized /\ ConversionsFreshlyInitialized)
        => \A i \in 1..Len(mappings) :
               mappings[i].value.conversionRequired
                   => \E a \in Attributes :
                          hasConversion(mappings[i].value.platform,
                              mappings[i].value.unifiedCapability, a)

\* C28: the forward and the reverse map cover each other in every state:
\* the name a reverse lookup of (p, c) gives has a forward entry under p, the
\* capability of every forward entry has a reverse entry under its platform,
\* and once the module is loaded the two maps are empty together, exactly
\* when nothing was registered since the last clear().
C28_MapsCoverEachOther ==
    /\ \A p \in Platform, c \in DeviceCapability :
           \A n \in {getPlatformCapability(p, c)} :
               n # Null => getMapping(p, n[1]) # Null
    /\ \A i \in 1..Len(mappings) :
           isPlatformSupported(mappings[i].value.platform,
                               mappings[i].value.unifiedCapability)
    /\ (mappings = <<>>) <=> (reverseMappings = <<>>)
    /\ pc = "ready" => ((getMappingCount = 0) <=> (registered = <<>>))

\* on a cleared registry switch_led was registered as a dimmer, after the
\* switch or alone: one forward entry, every reverse entry naming it
C28_Witness ==
    /\ calls = 2
    /\ call.op = "CapabilityRegistry.register"
    /\ getMappingCount = 1
    /\ getUnifiedCapability("tuya", "switch_led") = Some("dimmer")
    /\ getPlatformCapability("tuya", "dimmer") = Some("switch_led")
    /\ Len(registered) = 1

---------------------------------------------------------------------------
(* Round trips of the standard conversions                                 *)

\* C29: the Tuya colour conversion loses nothing starting from the unified
\* side: for integers h in 0..360, s in 0..100 and v in 0..100,
\* fromPlatform of what toPlatform gave for {h, s, v} is {h, s, v} again;
\* the opposite round trip does not always return the platform value, as
\* v' = 1 and v' = 254 come back as 0 and 255.
C29_TuyaColorRoundTrip ==
    /\ Called("toPlatform", "tuya", "color", "color")
           => /\ ~call.threw
              /\ ValueConversionRegistry_fromPlatform("tuya", "color",
                     "color", call.ret) = Returned(call.args.value)
    /\ (/\ Called("fromPlatform", "tuya", "color", "color")
        /\ JSON_parse(call.args.value.s).v \in {1, 254})
           => /\ ~call.threw
              /\ \A back \in {ValueConversionRegistry_toPlatform("tuya",
                                  "color", "color", call.ret)} :
                     /\ back # Returned(call.args.value)
                     /\ JSON_parse(back.value.s).v
                            = IF JSON_parse(call.args.value.s).v = 1
                              THEN 0 ELSE 255

\* v = 10 was encoded (25.5 is a tie of the scale) and decodes to 10 again
C29_Witness ==
    /\ Called("toPlatform", "tuya", "color", "color")
    /\ call.args.value = Hsv(Int0(0), Int0(100), Int0(10))
    /\ ~call.threw
    /\ ValueConversionRegistry_fromPlatform("tuya", "color", "color", call.ret)
           = Returned(Hsv(Int0(0), Int0(100), Int0(10)))

\* the integer a conversion outcome holds (-1 if it holds none)
OutcomeInt(out) ==
    IF ~out.threw /\ out.value.t = "number" /\ out.value.k = 0
    THEN out.value.n ELSE -1

\* C30: the drift of a hue round trip is bounded: for every integer degree
\* d in 0..360 toPlatform(d) lies in 0..100 and fromPlatform of it differs
\* from d by 2 at most; for every integer percent p in 0..100 fromPlatform(p)
\* lies in 0..360 and toPlatform of it is p.
C30_HueRoundTripDrift ==
    /\ Called("toPlatform", "smartthings", "color", "hue")
           => /\ IsInt
              /\ RetInt \in 0..100
              /\ \A back \in {OutcomeInt(ValueConversionRegistry_fromPlatform(
                                 "smartthings", "color", "hue", call.ret))} :
                     back >= 0 /\ Abs(back - call.args.value.n) <= 2
    /\ Called("fromPlatform", "smartthings", "color", "hue")
           => /\ IsInt
              /\ RetInt \in 0..360
              /\ ValueConversionRegistry_toPlatform("smartthings", "color",
                     "hue", call.ret) = Returned(call.args.value)

\* a degree value drifting by 2: 2 -> 1 -> 4
C30_Witness ==
    /\ Called("toPlatform", "smartthings", "color", "hue")
    /\ call.args.value = Int0(2)
    /\ ReturnedInt(1)
    /\ ValueConversionRegistry_fromPlatform("smartthings", "color", "hue",
           call.ret) = Returned(Int0(4))
=============================================================================
